---- MODULE Spec2Model ----
(***************************************************************************)
(* Verification model of starparse (pack.py / unpack.py): the Starbound    *)
(* save-file codec.  The codec is a library of pure functions over a byte  *)
(* buffer and a cursor; every function is an operator that computes what   *)
(* the Python code computes, and the specifications below drive them the   *)
(* way the repository's tests do (pack a value, unpack the bytes).         *)
(*                                                                         *)
(* Bytes are integers 0..255, a buffer is a sequence of bytes, offsets are *)
(* 0-based as in Python (buffer[offset] is buffer[offset + 1] here).       *)
(* x & 127 is x % 128, x >> 7 is x \div 128, x | 128 is x + 128 when       *)
(* x < 128.  A raised exception is the record [err |-> <class name>].      *)
(***************************************************************************)
EXTENDS Integers, Sequences, FiniteSets, TLC

VARIABLES
    UTF8,          \* config.UTF8
    ORDERED_DICT,  \* config.ORDERED_DICT
    pc,            \* position of the calling test
    n,             \* the integer handed to pack.uint / pack.int_
    value,         \* the string or tagged value handed to the packer
    entries,       \* (key, value) items written to a buffer by hand
    hdr,           \* the envelope fields handed to pack.header
    buffer,        \* the bytes handed to the unpacker
    offset,        \* the offset handed to the unpacker
    packed,        \* what the packer returned (or raised)
    unpacked_hdr,  \* what unpack.header returned (or raised)
    result,        \* what the unpacker returned (or raised)
    dec            \* the call stack of an unpacker that is run step by step

vars == <<UTF8, ORDERED_DICT, pc, n, value, entries, hdr, buffer, offset,
          packed, unpacked_hdr, result, dec>>

\* ------------------------------------------------------------------ bounds

\* Integers -MaxSmallInt..MaxSmallInt are all tried, besides the boundary values.
MaxSmallInt == 300

\* Longest hand-written (possibly malformed) buffer handed to a decoder.
MaxRawLen == 3

\* Longest string handed to pack.str_ on its own.
MaxStrLen == 3

\* Most nodes (scalars, lists and maps, nested) of a tagged value handed to
\* pack.typed.
MaxNodes == 4

\* Most nodes of the tagged value that follows a header.
MaxPayloadNodes == 3

\* Most (key, value) items written to a buffer by hand.
MaxEntries == 3

\* Longest buffer of arbitrary bytes handed to an unpacker run step by step.
MaxDecodeLen == 3

\* ------------------------------------------------------------ exceptions

Raise(e) == [err |-> e]

Bytes(b) == [err |-> "none", bytes |-> b]

Return(v, o) == [err |-> "none", value |-> v, offset |-> o]

Ok(r) == r.err = "none"

\* ------------------------------------------------------- Python values
\* A Python object is a record whose t is the name of its class: type(value).
\* A str is the sequence of its code points; a float is its IEEE-754 fields
\* (sign bit, 11-bit biased exponent, 52-bit fraction as a 4-bit group and six
\* bytes); a dict is the sequence of its items in iteration order.

PyNone == [t |-> "NoneType"]

PyBool(b) == [t |-> "bool", v |-> b]

PyInt(i) == [t |-> "int", v |-> i]

PyFloat(sign, exponent, fraction) ==
    [t |-> "float", v |-> [sign |-> sign, exponent |-> exponent, fraction |-> fraction]]

PyStr(s) == [t |-> "str", v |-> s]

PyList(items) == [t |-> "list", v |-> items]

PyDict(cls, items) == [t |-> cls, v |-> items]

Item(key, val) == [k |-> key, v |-> val]

IsDict(val) == val.t \in {"dict", "OrderedDict"}

\* dict_setitem that leaves a key already present alone (result.setdefault).
dict_setitem_keep_first(items, key, val) ==
    IF \E i \in 1..Len(items) : items[i].k = key
    THEN items
    ELSE Append(items, Item(key, val))

\* result[key] = item on a dict (or OrderedDict) whose items are `items`: a key
\* already present keeps its place and takes the new value, a new key goes last.
dict_setitem(items, key, val) ==
    IF \E i \in 1..Len(items) : items[i].k = key
    THEN [i \in 1..Len(items) |-> IF items[i].k = key THEN Item(key, val) ELSE items[i]]
    ELSE Append(items, Item(key, val))

\* bytearray(value, 'ascii') succeeds exactly when every code point is below 128.
IsAscii(s) == \A i \in 1..Len(s) : s[i] < 128

\* The UTF-8 bytes of one code point (surrogates are not among the inputs).
utf8_char(c) ==
    IF c < 128 THEN <<c>>
    ELSE IF c < 2048 THEN <<192 + (c \div 64), 128 + (c % 64)>>
    ELSE IF c < 65536 THEN <<224 + (c \div 4096), 128 + ((c \div 64) % 64), 128 + (c % 64)>>
    ELSE <<240 + (c \div 262144), 128 + ((c \div 4096) % 64),
           128 + ((c \div 64) % 64), 128 + (c % 64)>>

RECURSIVE utf8_encode(_)
\* bytearray(value, 'utf-8')
utf8_encode(s) == IF s = <<>> THEN <<>> ELSE utf8_char(Head(s)) \o utf8_encode(Tail(s))

IsCont(b) == b >= 128 /\ b < 192

RECURSIVE utf8_decode(_, _)
\* bytes.decode('utf-8') of the bytes b from position i (1-based) on: the code
\* points, or <<-1>> when the decoder raises UnicodeDecodeError.
utf8_decode(b, i) ==
    IF i > Len(b) THEN <<>>
    ELSE LET b0 == b[i]
             need == IF b0 < 128 THEN 1
                     ELSE IF b0 >= 194 /\ b0 < 224 THEN 2
                     ELSE IF b0 >= 224 /\ b0 < 240 THEN 3
                     ELSE IF b0 >= 240 /\ b0 < 245 THEN 4
                     ELSE 0
             wellformed ==
                 /\ need > 0
                 /\ i + need - 1 <= Len(b)
                 /\ \A j \in (i + 1)..(i + need - 1) : IsCont(b[j])
                 /\ (b0 = 224 => b[i + 1] >= 160)
                 /\ (b0 = 237 => b[i + 1] < 160)
                 /\ (b0 = 240 => b[i + 1] >= 144)
                 /\ (b0 = 244 => b[i + 1] < 144)
             c == CASE need = 1 -> b0
                    [] need = 2 -> (b0 - 192) * 64 + (b[i + 1] - 128)
                    [] need = 3 -> (b0 - 224) * 4096 + (b[i + 1] - 128) * 64 + (b[i + 2] - 128)
                    [] need = 4 -> (b0 - 240) * 262144 + (b[i + 1] - 128) * 4096
                                   + (b[i + 2] - 128) * 64 + (b[i + 3] - 128)
             rest == utf8_decode(b, i + need)
         IN  IF ~wellformed THEN <<-1>>
             ELSE IF rest = <<-1>> THEN <<-1>>
             ELSE <<c>> \o rest

\* buffer[a:b] for 0 <= a: the slice is clipped to the buffer, it never raises.
Slice(buf, a, b) ==
    LET hi == IF b < Len(buf) THEN b ELSE Len(buf)
    IN  IF a >= hi THEN <<>> ELSE SubSeq(buf, a + 1, hi)

\* ---------------------------------------------------------------- pack.py

\* The wrapper of @coerce around pack.dict_: a value that is no instance of the
\* expected class (OrderedDict when config.ORDERED_DICT, else dict) is converted
\* to it.  OrderedDict is a subclass of dict.  The other packers are handed
\* instances of the class they expect, which the wrapper passes through.
coerce_Dict(val) ==
    IF ORDERED_DICT /\ val.t # "OrderedDict" THEN PyDict("OrderedDict", val.v) ELSE val

RECURSIVE pack_uint_loop_append(_, _)
\* pack_uint_loop with result.append(...) for result.insert(0, ...).
pack_uint_loop_append(val, res) ==
    IF val = 0 THEN res
    ELSE pack_uint_loop_append(val \div 128, res \o <<(val % 128) + 128>>)

RECURSIVE pack_uint_loop(_, _)
\* while value: result.insert(0, value & 127 | 128); value >>= 7
pack_uint_loop(val, res) ==
    IF val = 0 THEN res
    ELSE pack_uint_loop(val \div 128, <<(val % 128) + 128>> \o res)

pack_uint(val) ==
    IF val < 0 THEN Raise("PackingError")
    ELSE Bytes(pack_uint_loop(val \div 128, <<val % 128>>))

abs(x) == IF x < 0 THEN -x ELSE x

\* pack_int_ without the value_ -= 1 of a negative value.
pack_int_no_decrement(val) == pack_uint(abs(val * 2))

\* pack_int_ without the abs().
pack_int_no_abs(val) == pack_uint(IF val < 0 THEN (val * 2) - 1 ELSE val * 2)

pack_int_(val) ==
    LET value_ == IF val < 0 THEN abs(val * 2) - 1 ELSE abs(val * 2)
    IN  pack_uint(value_)

\* value is the sequence of code points of the str.
pack_str_(val) ==
    LET res == pack_uint(Len(val)).bytes
    IN  IF IsAscii(val) THEN Bytes(res \o val)
        ELSE IF UTF8 THEN Bytes(res \o utf8_encode(val))
        ELSE Raise("PackingError")

\* bytearray([value]): True is 1 and False is 0.
pack_bool_(val) == Bytes(<<IF val THEN 1 ELSE 0>>)

pack_none(val) == Bytes(<<>>)

\* struct.pack('>d', value): the eight bytes of the double, most significant first.
pack_float_(val) ==
    Bytes(<<val.sign * 128 + (val.exponent \div 16),
            (val.exponent % 16) * 16 + val.fraction[1]>> \o Tail(val.fraction))

\* pack_type_ with bool given the tag of int (bool is a subclass of int).
pack_type_bool_as_int(val) ==
    CASE val = "NoneType" -> pack_uint(1)
      [] val = "float" -> pack_uint(2)
      [] val = "bool" -> pack_uint(4)
      [] val = "int" -> pack_uint(4)
      [] val = "str" -> pack_uint(5)
      [] val = "list" -> pack_uint(6)
      [] val = "dict" -> pack_uint(7)
      [] val = "OrderedDict" -> pack_uint(7)
      [] OTHER -> Raise("PackingError")

\* value is the name of the class.
pack_type_(val) ==
    CASE val = "NoneType" -> pack_uint(1)
      [] val = "float" -> pack_uint(2)
      [] val = "bool" -> pack_uint(3)
      [] val = "int" -> pack_uint(4)
      [] val = "str" -> pack_uint(5)
      [] val = "list" -> pack_uint(6)
      [] val = "dict" -> pack_uint(7)
      [] val = "OrderedDict" -> pack_uint(7)
      [] OTHER -> Raise("PackingError")

RECURSIVE pack_typed(_), pack_list_loop(_, _, _), pack_dict_loop(_, _, _)

\* for val in value: result.extend(typed(val)), from the i-th element on.
pack_list_loop(val, i, res) ==
    IF i > Len(val) THEN Bytes(res)
    ELSE LET e == pack_typed(val[i])
         IN  IF ~Ok(e) THEN e ELSE pack_list_loop(val, i + 1, res \o e.bytes)

\* value is the sequence of the list's elements.
pack_list_(val) == pack_list_loop(val, 1, pack_uint(Len(val)).bytes)

\* for key, val in value.items(): result.extend(str_(key)); result.extend(typed(val)),
\* from the i-th item on.
pack_dict_loop(items, i, res) ==
    IF i > Len(items) THEN Bytes(res)
    ELSE LET key == pack_str_(items[i].k)
             e == pack_typed(items[i].v)
         IN  IF ~Ok(key) THEN key
             ELSE IF ~Ok(e) THEN e
             ELSE pack_dict_loop(items, i + 1, res \o key.bytes \o e.bytes)

\* value is the dict (or OrderedDict) object.
pack_dict_(val) ==
    LET coerced == coerce_Dict(val)
    IN  pack_dict_loop(coerced.v, 1, pack_uint(Len(coerced.v)).bytes)

pack_typed(val) ==
    LET res == pack_type_(val.t)
        payload == CASE val.t = "NoneType" -> pack_none(val)
                     [] val.t = "bool" -> pack_bool_(val.v)
                     [] val.t = "int" -> pack_int_(val.v)
                     [] val.t = "float" -> pack_float_(val.v)
                     [] val.t = "list" -> pack_list_(val.v)
                     [] val.t = "dict" -> pack_dict_(val)
                     [] val.t = "OrderedDict" -> pack_dict_(val)
                     [] val.t = "str" -> pack_str_(val.v)
    IN  IF ~Ok(res) THEN res
        ELSE IF ~Ok(payload) THEN payload
        ELSE Bytes(res.bytes \o payload.bytes)

\* header is the record of save_format (bytes), entity (str) and flags (ints).
pack_header(save_format, entity, flags) ==
    LET name == pack_str_(entity)
    IN  IF ~Ok(name) THEN name ELSE Bytes(save_format \o name.bytes \o flags)

\* -------------------------------------------------------------- unpack.py

\* unpack.struct with fmt = '<length>c', the call unpack.str_ makes.
struct_c(length, buf, off) ==
    IF Len(buf) - off < length THEN Raise("struct.error")
    ELSE LET raw == Slice(buf, off, off + length)
             decoded == utf8_decode(raw, 1)
         IN  IF \A i \in 1..Len(raw) : raw[i] < 128 THEN Return(raw, off + length)
             ELSE IF ~UTF8 THEN Raise("UnpackingError")
             ELSE IF decoded = <<-1>> THEN Raise("UnicodeDecodeError")
             ELSE Return(decoded, off + length)

\* unpack.struct with fmt = '>d', the call unpack.float_ makes.
struct_d(buf, off) ==
    IF Len(buf) - off < 8 THEN Raise("struct.error")
    ELSE LET b == Slice(buf, off, off + 8)
         IN  Return([sign |-> b[1] \div 128,
                     exponent |-> (b[1] % 128) * 16 + (b[2] \div 16),
                     fraction |-> <<b[2] % 16>> \o SubSeq(b, 3, 8)],
                    off + 8)

RECURSIVE unpack_uint_loop_mask63(_, _, _)
\* unpack_uint_loop with tmp & 63 for tmp & 127.
unpack_uint_loop_mask63(buf, off, val) ==
    IF off >= Len(buf) THEN Raise("IndexError")
    ELSE LET tmp == buf[off + 1]
             v == val * 128 + (tmp % 64)
         IN  IF (tmp \div 128) % 2 = 0 THEN Return(v, off + 1)
             ELSE unpack_uint_loop_mask63(buf, off + 1, v)

RECURSIVE unpack_uint_loop(_, _, _)
\* The while True loop of unpack.uint, from the byte at off on.
unpack_uint_loop(buf, off, val) ==
    IF off >= Len(buf) THEN Raise("IndexError")
    ELSE LET tmp == buf[off + 1]
             v == val * 128 + (tmp % 128)
         IN  IF (tmp \div 128) % 2 = 0 THEN Return(v, off + 1)
             ELSE unpack_uint_loop(buf, off + 1, v)

unpack_uint(buf, off) == unpack_uint_loop(buf, off, 0)

RECURSIVE unpack_int_loop(_, _, _)
\* The while True loop of unpack.int_, from the byte at off on.
unpack_int_loop(buf, off, val) ==
    IF off >= Len(buf) THEN Raise("IndexError")
    ELSE LET tmp == buf[off + 1]
             v == val * 128 + (tmp % 128)
         IN  IF (tmp \div 128) % 2 = 0 THEN Return(v, off + 1)
             ELSE unpack_int_loop(buf, off + 1, v)

unpack_int_(buf, off) ==
    LET r == unpack_int_loop(buf, off, 0)
    IN  IF ~Ok(r) THEN r
        ELSE IF r.value % 2 = 1 THEN Return(-((r.value \div 2) + 1), r.offset)
        ELSE Return(r.value \div 2, r.offset)

unpack_str_(buf, off) ==
    LET length == unpack_uint(buf, off)
    IN  IF ~Ok(length) THEN length ELSE struct_c(length.value, buf, length.offset)

unpack_bool_(buf, off) ==
    IF off >= Len(buf) THEN Raise("IndexError")
    ELSE Return(buf[off + 1] # 0, off + 1)

unpack_none(buf, off) == Return(PyNone, off)

unpack_float_(buf, off) == struct_d(buf, off)

\* types[index - 1] on the seven-element list types: a Python list takes the
\* indices -7..6, so index 0 selects types[-1], the last element.
unpack_type_(buf, off) ==
    LET types == <<"None", "float", "bool", "int", "str", "list", "dict">>
        index == unpack_uint(buf, off)
    IN  IF ~Ok(index) THEN index
        ELSE IF index.value - 1 >= 0 /\ index.value - 1 < Len(types)
             THEN Return(types[index.value], index.offset)
        ELSE IF index.value - 1 < 0 /\ index.value - 1 >= -Len(types)
             THEN Return(types[Len(types) + index.value], index.offset)
        ELSE Raise("UnpackingError")

RECURSIVE unpack_typed(_, _), unpack_list_loop(_, _, _, _), unpack_dict_loop(_, _, _, _)

\* for _ in range(length): item, offset = typed(buffer, offset); result.append(item),
\* with `left` passes to go.
unpack_list_loop(buf, off, left, res) ==
    IF left <= 0 THEN Return(PyList(res), off)
    ELSE LET item == unpack_typed(buf, off)
         IN  IF ~Ok(item) THEN item
             ELSE unpack_list_loop(buf, item.offset, left - 1, Append(res, item.value))

unpack_list_(buf, off) ==
    LET length == unpack_uint(buf, off)
    IN  IF ~Ok(length) THEN length
        ELSE unpack_list_loop(buf, length.offset, length.value, <<>>)

\* for _ in range(length): key, offset = str_(...); item, offset = typed(...);
\* result[key] = item, with `left` passes to go.
unpack_dict_loop(buf, off, left, res) ==
    IF left <= 0
    THEN Return(PyDict(IF ORDERED_DICT THEN "OrderedDict" ELSE "dict", res), off)
    ELSE LET key == unpack_str_(buf, off)
             item == unpack_typed(buf, key.offset)
         IN  IF ~Ok(key) THEN key
             ELSE IF ~Ok(item) THEN item
             ELSE unpack_dict_loop(buf, item.offset, left - 1,
                                   dict_setitem(res, key.value, item.value))

unpack_dict_(buf, off) ==
    LET length == unpack_uint(buf, off)
    IN  IF ~Ok(length) THEN length
        ELSE unpack_dict_loop(buf, length.offset, length.value, <<>>)

\* What the handler of handlers[value_type] returns, as a Python object.
unpack_typed(buf, off) ==
    LET value_type == unpack_type_(buf, off)
        o == value_type.offset
        wrap(r, cls) == IF Ok(r) THEN Return([t |-> cls, v |-> r.value], r.offset) ELSE r
    IN  IF ~Ok(value_type) THEN value_type
        ELSE CASE value_type.value = "None" -> unpack_none(buf, o)
               [] value_type.value = "bool" -> wrap(unpack_bool_(buf, o), "bool")
               [] value_type.value = "int" -> wrap(unpack_int_(buf, o), "int")
               [] value_type.value = "float" -> wrap(unpack_float_(buf, o), "float")
               [] value_type.value = "list" -> unpack_list_(buf, o)
               [] value_type.value = "dict" -> unpack_dict_(buf, o)
               [] value_type.value = "str" -> wrap(unpack_str_(buf, o), "str")

\* unpack_header with a flags block of 4 bytes.
unpack_header_flags4(buf, off) ==
    LET save_format == Slice(buf, off, off + 6)
        entity == unpack_str_(buf, off + 6)
    IN  IF ~Ok(entity) THEN entity
        ELSE [err |-> "none",
              save_format |-> save_format,
              entity |-> entity.value,
              flags |-> Slice(buf, entity.offset, entity.offset + 4),
              offset |-> entity.offset + 4]

unpack_header(buf, off) ==
    LET save_format == Slice(buf, off, off + 6)
        entity == unpack_str_(buf, off + 6)
    IN  IF ~Ok(entity) THEN entity
        ELSE [err |-> "none",
              save_format |-> save_format,
              entity |-> entity.value,
              flags |-> Slice(buf, entity.offset, entity.offset + 5),
              offset |-> entity.offset + 5]

\* ------------------------------------------------- unpack.py, step by step
\* The same unpackers run one statement at a time.  dec.stack is the Python call
\* stack, the running call last; a frame holds the function, the place reached
\* in it and its locals: offset, value (the accumulator of uint and int_) and
\* left (the passes of the for loop still to make).  dec.ret is what the last
\* finished call returned: the new offset, and the value where the caller uses
\* it (the number of uint, the class of type_).  dec.items counts the passes the
\* for loops of list_ and dict_ have begun.  The decoded objects are not kept.

Frame(fn, off) == [fn |-> fn, at |-> "entry", offset |-> off, value |-> 0, left |-> 0]

\* The call fn(buffer, off) is made.
StartDecode(fn, off) ==
    [status |-> "running", fn |-> fn, stack |-> <<Frame(fn, off)>>,
     ret |-> [value |-> 0, type |-> "", offset |-> off], err |-> "none", items |-> 0]

Top(d) == d.stack[Len(d.stack)]

Caller(d) == SubSeq(d.stack, 1, Len(d.stack) - 1)

\* The running call goes on at `at` with its locals changed to those of f.
Goto(d, f, at) == [d EXCEPT !.stack = Append(Caller(d), [f EXCEPT !.at = at])]

\* The running call calls fn(buffer, off) and will go on at `at`.
CallFrom(d, at, fn, off) ==
    [d EXCEPT !.stack = Append(Append(Caller(d), [Top(d) EXCEPT !.at = at]), Frame(fn, off))]

\* The running call returns (v, off), v of class ty where that matters.
ReturnFrom(d, v, ty, off) ==
    [d EXCEPT !.stack = Caller(d),
              !.ret = [value |-> v, type |-> ty, offset |-> off],
              !.status = IF Len(d.stack) = 1 THEN "returned" ELSE "running"]

\* An exception nobody catches unwinds the whole stack.
RaiseFrom(d, e) == [d EXCEPT !.stack = <<>>, !.status = "raised", !.err = e]

\* What a function without a loop returned or raised, r, ends the running call.
Finish(d, r) == IF Ok(r) THEN ReturnFrom(d, 0, "", r.offset) ELSE RaiseFrom(d, r.err)

\* One pass of the while True loop of unpack.uint.
step_uint(d, buf) ==
    LET f == Top(d)
        tmp == buf[f.offset + 1]
        v == f.value * 128 + (tmp % 128)
    IN  IF f.offset >= Len(buf) THEN RaiseFrom(d, "IndexError")
        ELSE IF (tmp \div 128) % 2 = 0 THEN ReturnFrom(d, v, "", f.offset + 1)
        ELSE Goto(d, [f EXCEPT !.offset = f.offset + 1, !.value = v], "entry")

\* One pass of the while True loop of unpack.int_, with what follows the loop.
step_int_(d, buf) ==
    LET f == Top(d)
        tmp == buf[f.offset + 1]
        v == f.value * 128 + (tmp % 128)
    IN  IF f.offset >= Len(buf) THEN RaiseFrom(d, "IndexError")
        ELSE IF (tmp \div 128) % 2 = 0
             THEN ReturnFrom(d, IF v % 2 = 1 THEN -((v \div 2) + 1) ELSE v \div 2, "",
                             f.offset + 1)
        ELSE Goto(d, [f EXCEPT !.offset = f.offset + 1, !.value = v], "entry")

step_str_(d, buf) ==
    LET f == Top(d)
    IN  IF f.at = "entry" THEN CallFrom(d, "struct", "uint", f.offset)
        ELSE Finish(d, struct_c(d.ret.value, buf, d.ret.offset))

step_bool_(d, buf) == Finish(d, unpack_bool_(buf, Top(d).offset))

step_none(d, buf) == Finish(d, unpack_none(buf, Top(d).offset))

step_float_(d, buf) == Finish(d, unpack_float_(buf, Top(d).offset))

step_type_(d, buf) ==
    LET f == Top(d)
        types == <<"None", "float", "bool", "int", "str", "list", "dict">>
        index == d.ret.value
    IN  IF f.at = "entry" THEN CallFrom(d, "lookup", "uint", f.offset)
        ELSE IF index - 1 >= 0 /\ index - 1 < Len(types)
             THEN ReturnFrom(d, 0, types[index], d.ret.offset)
        ELSE IF index - 1 < 0 /\ index - 1 >= -Len(types)
             THEN ReturnFrom(d, 0, types[Len(types) + index], d.ret.offset)
        ELSE RaiseFrom(d, "UnpackingError")

\* unpack_list_ step by step, but with the offset typed returned thrown away:
\* item, _ = typed(buffer, offset).
step_list_same_offset(d, buf) ==
    LET f == Top(d)
    IN  CASE f.at = "entry" -> CallFrom(d, "range", "uint", f.offset)
          [] f.at = "range" ->
                 Goto(d, [f EXCEPT !.offset = d.ret.offset, !.left = d.ret.value], "for")
          [] f.at = "for" ->
                 IF f.left <= 0 THEN ReturnFrom(d, 0, "", f.offset)
                 ELSE [CallFrom(d, "append", "typed", f.offset) EXCEPT !.items = d.items + 1]
          [] f.at = "append" ->
                 Goto(d, [f EXCEPT !.left = f.left - 1], "for")

step_list_(d, buf) ==
    LET f == Top(d)
    IN  CASE f.at = "entry" -> CallFrom(d, "range", "uint", f.offset)
          [] f.at = "range" ->
                 Goto(d, [f EXCEPT !.offset = d.ret.offset, !.left = d.ret.value], "for")
          [] f.at = "for" ->
                 IF f.left <= 0 THEN ReturnFrom(d, 0, "", f.offset)
                 ELSE [CallFrom(d, "append", "typed", f.offset) EXCEPT !.items = d.items + 1]
          [] f.at = "append" ->
                 Goto(d, [f EXCEPT !.offset = d.ret.offset, !.left = f.left - 1], "for")

step_dict_(d, buf) ==
    LET f == Top(d)
    IN  CASE f.at = "entry" -> CallFrom(d, "range", "uint", f.offset)
          [] f.at = "range" ->
                 Goto(d, [f EXCEPT !.offset = d.ret.offset, !.left = d.ret.value], "for")
          [] f.at = "for" ->
                 IF f.left <= 0 THEN ReturnFrom(d, 0, "", f.offset)
                 ELSE [CallFrom(d, "item", "str_", f.offset) EXCEPT !.items = d.items + 1]
          [] f.at = "item" -> CallFrom(d, "store", "typed", d.ret.offset)
          [] f.at = "store" ->
                 Goto(d, [f EXCEPT !.offset = d.ret.offset, !.left = f.left - 1], "for")

step_typed(d, buf) ==
    LET f == Top(d)
        handler == CASE d.ret.type = "None" -> "none"
                     [] d.ret.type = "bool" -> "bool_"
                     [] d.ret.type = "int" -> "int_"
                     [] d.ret.type = "float" -> "float_"
                     [] d.ret.type = "list" -> "list_"
                     [] d.ret.type = "dict" -> "dict_"
                     [] d.ret.type = "str" -> "str_"
    IN  CASE f.at = "entry" -> CallFrom(d, "handlers", "type_", f.offset)
          [] f.at = "handlers" -> CallFrom(d, "return", handler, d.ret.offset)
          [] f.at = "return" -> ReturnFrom(d, 0, "", d.ret.offset)

step_header(d, buf) ==
    LET f == Top(d)
    IN  IF f.at = "entry" THEN CallFrom(d, "flags", "str_", f.offset + 6)
        ELSE ReturnFrom(d, 0, "", d.ret.offset + 5)

\* ------------------------------------------------------------------ inputs

Pow2(k) == 2 ^ k

\* Values around every change of encoded length (7, 14, 21, 28 bits).
BoundaryInts ==
    UNION { {Pow2(k) - 1, Pow2(k), Pow2(k) + 1, -(Pow2(k) - 1), -Pow2(k), -(Pow2(k) + 1)} :
            k \in {6, 7, 13, 14, 20, 21, 27, 28} }

IntInputs == (-MaxSmallInt .. MaxSmallInt) \cup BoundaryInts

\* Bytes used for hand-written buffers: the tags 1..7 and their neighbours 0 and
\* 8, a letter, and bytes with the continuation bit set.
SampleBytes == {0, 1, 2, 3, 4, 5, 6, 7, 8, 97, 128, 129, 255}

\* Code points of the strings: "a", "z", and one character for each longer
\* UTF-8 form (U+00E9 in two bytes, U+20AC in three, U+1F600 in four).
Chars == {97, 122, 233, 8364, 128512}

\* Map keys and entity names: "a", "b" and "ab".
KeyStrs == {<<97>>, <<98>>, <<97, 98>>}

\* The childless tagged values: null, both booleans, integers with one-, two-
\* and three-byte encodings, strings, the empty list and the empty map.
Atoms ==
    <<PyNone, PyBool(TRUE), PyBool(FALSE), PyInt(1), PyInt(-100), PyInt(8192),
      PyStr(<<>>), PyStr(<<97, 98>>), PyList(<<>>), PyDict("dict", <<>>)>>

\* Doubles as a last leaf: 1.0, -0.0 and a NaN with a payload.
FloatAtoms ==
    <<PyFloat(0, 1023, <<0, 0, 0, 0, 0, 0, 0>>),
      PyFloat(1, 0, <<0, 0, 0, 0, 0, 0, 0>>),
      PyFloat(0, 2047, <<8, 0, 0, 0, 0, 0, 1>>)>>

\* The values of the items written by hand.
EntryValues == <<PyNone, PyBool(TRUE), PyInt(1), PyList(<<PyInt(-100)>>)>>

\* The envelopes: the format identifier of the save files and one of arbitrary
\* bytes, an empty and a two-letter entity name, two flag blocks.
Headers ==
    { [save_format |-> f, entity |-> e, flags |-> g] :
        f \in {<<83, 66, 86, 74, 48, 49>>, <<0, 128, 255, 1, 7, 6>>},
        e \in {<<>>, <<97, 98>>},
        g \in {<<0, 0, 0, 0, 0>>, <<1, 0, 255, 128, 7>>} }

RECURSIVE Size(_)
\* The number of nodes of a tagged value.
Size(val) ==
    IF val.t = "list" \/ IsDict(val)
    THEN LET child(i) == IF IsDict(val) THEN val.v[i].v ELSE val.v[i]
             sum[i \in 0..Len(val.v)] == IF i = 0 THEN 1 ELSE sum[i - 1] + Size(child(i))
         IN  sum[Len(val.v)]
    ELSE 1

\* ---------------------------------------------------- specification SpecVlq
\* The integer codec: pack an integer and unpack the bytes (tests UintTest and
\* IntTest, test_parity), or unpack a hand-written buffer (UintTest.test).

NoCall == [err |-> "not called"]

\* No unpacker is being run step by step.
NoDecode == [status |-> "not called"]

NoHeader == [save_format |-> <<>>, entity |-> <<>>, flags |-> <<>>]

InitVlq ==
    /\ UTF8 = FALSE
    /\ ORDERED_DICT = TRUE
    /\ pc = "start"
    /\ n \in IntInputs
    /\ value = PyNone
    /\ entries = <<>>
    /\ hdr = NoHeader
    /\ unpacked_hdr = NoCall
    /\ buffer = <<>>
    /\ offset = 0
    /\ packed = NoCall
    /\ result = NoCall
    /\ dec = NoDecode

PackUint ==
    /\ pc = "start"
    /\ packed' = pack_uint(n)
    /\ buffer' = IF Ok(packed') THEN packed'.bytes ELSE buffer
    /\ pc' = IF Ok(packed') THEN "packed_uint" ELSE "pack_uint_raised"
    /\ UNCHANGED <<dec, UTF8, ORDERED_DICT, n, value, entries, hdr, offset, unpacked_hdr, result>>

PackInt ==
    /\ pc = "start"
    /\ packed' = pack_int_(n)
    /\ buffer' = IF Ok(packed') THEN packed'.bytes ELSE buffer
    /\ pc' = IF Ok(packed') THEN "packed_int" ELSE "pack_int_raised"
    /\ UNCHANGED <<dec, UTF8, ORDERED_DICT, n, value, entries, hdr, offset, unpacked_hdr, result>>

UnpackUint ==
    /\ pc = "packed_uint"
    /\ result' = unpack_uint(buffer, offset)
    /\ pc' = "unpacked_uint"
    /\ UNCHANGED <<dec, UTF8, ORDERED_DICT, n, value, entries, hdr, buffer, offset, packed, unpacked_hdr>>

UnpackInt ==
    /\ pc = "packed_int"
    /\ result' = unpack_int_(buffer, offset)
    /\ pc' = "unpacked_int"
    /\ UNCHANGED <<dec, UTF8, ORDERED_DICT, n, value, entries, hdr, buffer, offset, packed, unpacked_hdr>>

NextVlq == PackUint \/ PackInt \/ UnpackUint \/ UnpackInt

SpecVlq == InitVlq /\ [][NextVlq]_vars

\* ---------------------------------------------------- specification SpecRaw
\* The decoders on hand-written buffers, well-formed or not (the tests
\* UintTest.test, IntTest.test and TypeTest): a buffer is written byte by byte
\* and handed to one decoder.

InitRaw ==
    /\ UTF8 = FALSE
    /\ ORDERED_DICT \in BOOLEAN
    /\ pc = "raw"
    /\ n = 0
    /\ value = PyNone
    /\ entries = <<>>
    /\ hdr = NoHeader
    /\ unpacked_hdr = NoCall
    /\ buffer = <<>>
    /\ offset = 0
    /\ packed = NoCall
    /\ result = NoCall
    /\ dec = NoDecode

AppendByte ==
    /\ pc = "raw"
    /\ Len(buffer) < MaxRawLen
    /\ \E b \in SampleBytes : buffer' = Append(buffer, b)
    /\ UNCHANGED <<dec, UTF8, ORDERED_DICT, pc, n, value, entries, hdr, offset, packed,
                   unpacked_hdr, result>>

RawUint ==
    /\ pc = "raw"
    /\ \E off \in 0..Len(buffer) :
           /\ offset' = off
           /\ result' = unpack_uint(buffer, off)
    /\ pc' = "raw_uint"
    /\ UNCHANGED <<dec, UTF8, ORDERED_DICT, n, value, entries, hdr, buffer, packed, unpacked_hdr>>

RawInt ==
    /\ pc = "raw"
    /\ \E off \in 0..Len(buffer) :
           /\ offset' = off
           /\ result' = unpack_int_(buffer, off)
    /\ pc' = "raw_int"
    /\ UNCHANGED <<dec, UTF8, ORDERED_DICT, n, value, entries, hdr, buffer, packed, unpacked_hdr>>

RawType ==
    /\ pc = "raw"
    /\ result' = unpack_type_(buffer, offset)
    /\ pc' = "raw_type"
    /\ UNCHANGED <<dec, UTF8, ORDERED_DICT, n, value, entries, hdr, buffer, offset, packed,
                   unpacked_hdr>>

RawTyped ==
    /\ pc = "raw"
    /\ result' = unpack_typed(buffer, offset)
    /\ pc' = "raw_typed"
    /\ UNCHANGED <<dec, UTF8, ORDERED_DICT, n, value, entries, hdr, buffer, offset, packed,
                   unpacked_hdr>>

NextRaw == AppendByte \/ RawUint \/ RawInt \/ RawType \/ RawTyped

SpecRaw == InitRaw /\ [][NextRaw]_vars

\* ---------------------------------------------------- specification SpecStr
\* The string codec (test StrTest.test_parity, with either setting of
\* config.UTF8): a string is written character by character, packed, and the
\* bytes are unpacked.

InitStr ==
    /\ UTF8 \in BOOLEAN
    /\ ORDERED_DICT = TRUE
    /\ pc = "text"
    /\ n = 0
    /\ value = PyStr(<<>>)
    /\ entries = <<>>
    /\ hdr = NoHeader
    /\ unpacked_hdr = NoCall
    /\ buffer = <<>>
    /\ offset = 0
    /\ packed = NoCall
    /\ result = NoCall
    /\ dec = NoDecode

AppendChar ==
    /\ pc = "text"
    /\ Len(value.v) < MaxStrLen
    /\ \E c \in Chars : value' = PyStr(Append(value.v, c))
    /\ UNCHANGED <<dec, UTF8, ORDERED_DICT, pc, n, entries, hdr, buffer, offset, packed,
                   unpacked_hdr, result>>

PackStr ==
    /\ pc = "text"
    /\ packed' = pack_str_(value.v)
    /\ buffer' = IF Ok(packed') THEN packed'.bytes ELSE buffer
    /\ pc' = IF Ok(packed') THEN "packed_str" ELSE "pack_str_raised"
    /\ UNCHANGED <<dec, UTF8, ORDERED_DICT, n, value, entries, hdr, offset, unpacked_hdr, result>>

UnpackStr ==
    /\ pc = "packed_str"
    /\ result' = unpack_str_(buffer, offset)
    /\ pc' = "unpacked_str"
    /\ UNCHANGED <<dec, UTF8, ORDERED_DICT, n, value, entries, hdr, buffer, offset, packed,
                   unpacked_hdr>>

NextStr == AppendChar \/ PackStr \/ UnpackStr

SpecStr == InitStr /\ [][NextStr]_vars

\* -------------------------------------------------- specification SpecTyped
\* The tagged-value codec (tests ListTest and DictTest, test_parity, with either
\* setting of config.ORDERED_DICT): a value is built up from the atoms by
\* wrapping it in a list or a map and by adding elements, then packed, and the
\* bytes are unpacked.

\* The class of the maps the caller builds: the tests build an OrderedDict when
\* config.ORDERED_DICT is patched on and a dict when it is off.
DictClass == IF ORDERED_DICT THEN "OrderedDict" ELSE "dict"

InitTyped ==
    /\ UTF8 = FALSE
    /\ ORDERED_DICT \in BOOLEAN
    /\ pc = "build"
    /\ n = 0
    /\ \E i \in DOMAIN Atoms : value = Atoms[i]
    /\ entries = <<>>
    /\ hdr = NoHeader
    /\ unpacked_hdr = NoCall
    /\ buffer = <<>>
    /\ offset = 0
    /\ packed = NoCall
    /\ result = NoCall
    /\ dec = NoDecode

WrapList(limit) ==
    /\ pc = "build"
    /\ Size(value) < limit
    /\ value' = PyList(<<value>>)
    /\ UNCHANGED <<dec, UTF8, ORDERED_DICT, pc, n, entries, hdr, buffer, offset, packed,
                   unpacked_hdr, result>>

WrapDict(limit) ==
    /\ pc = "build"
    /\ Size(value) < limit
    /\ \E k \in KeyStrs : value' = PyDict(DictClass, <<Item(k, value)>>)
    /\ UNCHANGED <<dec, UTF8, ORDERED_DICT, pc, n, entries, hdr, buffer, offset, packed,
                   unpacked_hdr, result>>

ListAppend(limit) ==
    /\ pc = "build"
    /\ value.t = "list"
    /\ Size(value) < limit
    /\ \E i \in DOMAIN Atoms : value' = PyList(Append(value.v, Atoms[i]))
    /\ UNCHANGED <<dec, UTF8, ORDERED_DICT, pc, n, entries, hdr, buffer, offset, packed,
                   unpacked_hdr, result>>

DictSet(limit) ==
    /\ pc = "build"
    /\ IsDict(value)
    /\ Size(value) < limit
    /\ \E k \in KeyStrs, i \in DOMAIN Atoms :
           value' = PyDict(value.t, dict_setitem(value.v, k, Atoms[i]))
    /\ UNCHANGED <<dec, UTF8, ORDERED_DICT, pc, n, entries, hdr, buffer, offset, packed,
                   unpacked_hdr, result>>

PackTyped ==
    /\ pc = "build"
    /\ packed' = pack_typed(value)
    /\ buffer' = IF Ok(packed') THEN packed'.bytes ELSE buffer
    /\ pc' = IF Ok(packed') THEN "packed_typed" ELSE "pack_typed_raised"
    /\ UNCHANGED <<dec, UTF8, ORDERED_DICT, n, value, entries, hdr, offset, unpacked_hdr, result>>

UnpackTyped ==
    /\ pc = "packed_typed"
    /\ result' = unpack_typed(buffer, offset)
    /\ pc' = "unpacked_typed"
    /\ UNCHANGED <<dec, UTF8, ORDERED_DICT, n, value, entries, hdr, buffer, offset, packed,
                   unpacked_hdr>>

NextTyped ==
    \/ WrapList(MaxNodes)
    \/ WrapDict(MaxNodes)
    \/ ListAppend(MaxNodes)
    \/ DictSet(MaxNodes)
    \/ PackTyped
    \/ UnpackTyped

SpecTyped == InitTyped /\ [][NextTyped]_vars

\* --------------------------------------------------- specification SpecDict
\* unpack.dict_ on a hand-written map payload: the items, whose keys may
\* repeat, are written behind their count in the layout of pack.dict_, bytes
\* of a following value may come after them, and the buffer is unpacked.

InitDict ==
    /\ UTF8 = FALSE
    /\ ORDERED_DICT \in BOOLEAN
    /\ pc = "items"
    /\ n = 0
    /\ value = PyNone
    /\ entries = <<>>
    /\ hdr = NoHeader
    /\ unpacked_hdr = NoCall
    /\ buffer = <<>>
    /\ offset = 0
    /\ packed = NoCall
    /\ result = NoCall
    /\ dec = NoDecode

AddEntry ==
    /\ pc = "items"
    /\ Len(entries) < MaxEntries
    /\ \E k \in KeyStrs, i \in DOMAIN EntryValues :
           entries' = Append(entries, Item(k, EntryValues[i]))
    /\ UNCHANGED <<dec, UTF8, ORDERED_DICT, pc, n, value, hdr, buffer, offset, packed,
                   unpacked_hdr, result>>

WriteEntries ==
    /\ pc = "items"
    /\ packed' = pack_dict_loop(entries, 1, pack_uint(Len(entries)).bytes)
    /\ \E rest \in {<<>>, <<1>>, <<5, 1, 97>>} : buffer' = packed'.bytes \o rest
    /\ pc' = "written"
    /\ UNCHANGED <<dec, UTF8, ORDERED_DICT, n, value, entries, hdr, offset, unpacked_hdr, result>>

UnpackDict ==
    /\ pc = "written"
    /\ result' = unpack_dict_(buffer, offset)
    /\ pc' = "unpacked_dict"
    /\ UNCHANGED <<dec, UTF8, ORDERED_DICT, n, value, entries, hdr, buffer, offset, packed,
                   unpacked_hdr>>

NextDict == AddEntry \/ WriteEntries \/ UnpackDict

SpecDict == InitDict /\ [][NextDict]_vars

\* ------------------------------------------------- specification SpecHeader
\* The envelope (test CITest.test_ordered, and test_unordered): a header and a
\* tagged value are packed into one buffer, the header and then the value are
\* unpacked from it, and what was unpacked is packed again.

InitHeader ==
    /\ UTF8 = FALSE
    /\ ORDERED_DICT \in BOOLEAN
    /\ pc = "build"
    /\ n = 0
    /\ \/ \E i \in DOMAIN Atoms : value = Atoms[i]
       \/ \E i \in DOMAIN FloatAtoms : value = FloatAtoms[i]
    /\ entries = <<>>
    /\ hdr = NoHeader
    /\ unpacked_hdr = NoCall
    /\ buffer = <<>>
    /\ offset = 0
    /\ packed = NoCall
    /\ result = NoCall
    /\ dec = NoDecode

\* Both packers, as one expression of the test.
pack_envelope(h, val) ==
    LET head == pack_header(h.save_format, h.entity, h.flags)
        body == pack_typed(val)
    IN  IF ~Ok(head) THEN head
        ELSE IF ~Ok(body) THEN body
        ELSE Bytes(head.bytes \o body.bytes)

PackEnvelope ==
    /\ pc = "build"
    /\ \E h \in Headers :
           /\ hdr' = h
           /\ packed' = pack_envelope(h, value)
    /\ buffer' = IF Ok(packed') THEN packed'.bytes ELSE buffer
    /\ pc' = IF Ok(packed') THEN "packed_envelope" ELSE "pack_envelope_raised"
    /\ UNCHANGED <<dec, UTF8, ORDERED_DICT, n, value, entries, offset, unpacked_hdr, result>>

UnpackHeader ==
    /\ pc = "packed_envelope"
    /\ unpacked_hdr' = unpack_header(buffer, 0)
    /\ pc' = IF Ok(unpacked_hdr') THEN "unpacked_header" ELSE "unpack_header_raised"
    /\ UNCHANGED <<dec, UTF8, ORDERED_DICT, n, value, entries, hdr, buffer, offset, packed, result>>

UnpackPayload ==
    /\ pc = "unpacked_header"
    /\ offset' = unpacked_hdr.offset
    /\ result' = unpack_typed(buffer, unpacked_hdr.offset)
    /\ pc' = IF Ok(result') THEN "unpacked_payload" ELSE "unpack_payload_raised"
    /\ UNCHANGED <<dec, UTF8, ORDERED_DICT, n, value, entries, hdr, buffer, packed, unpacked_hdr>>

Repack ==
    /\ pc = "unpacked_payload"
    /\ packed' = pack_envelope(unpacked_hdr, result.value)
    /\ pc' = "repacked"
    /\ UNCHANGED <<dec, UTF8, ORDERED_DICT, n, value, entries, hdr, buffer, offset, unpacked_hdr,
                   result>>

NextHeader ==
    \/ WrapList(MaxPayloadNodes)
    \/ WrapDict(MaxPayloadNodes)
    \/ ListAppend(MaxPayloadNodes)
    \/ DictSet(MaxPayloadNodes)
    \/ PackEnvelope
    \/ UnpackHeader
    \/ UnpackPayload
    \/ Repack

SpecHeader == InitHeader /\ [][NextHeader]_vars

\* ------------------------------------------------- specification SpecDecode
\* An unpacker is called on a buffer, at an offset inside it, and runs to its
\* end one statement at a time.  The buffers are all the short sequences of the
\* bytes below, and every prefix of two well-formed buffers: an envelope with a
\* list of a float and a boolean, and a map of an integer and a string.

\* Bytes of the arbitrary buffers: the tags of null, list and map (also counts
\* and lengths), the tags 0 and 5, and a byte with the continuation bit.
DecodeBytes == {0, 1, 5, 6, 7, 129}

ArbitraryBuffers == UNION { [1..k -> DecodeBytes] : k \in 0..MaxDecodeLen }

Prefixes(b) == { SubSeq(b, 1, k) : k \in 0..Len(b) }

WellFormedBuffers ==
    { pack_header(<<83, 66, 86, 74, 48, 49>>, <<97, 98>>, <<1, 0, 255, 128, 7>>).bytes
          \o pack_typed(PyList(<<FloatAtoms[1], PyBool(TRUE)>>)).bytes,
      pack_typed(PyDict("dict", <<Item(<<97>>, PyInt(-100)),
                                  Item(<<98>>, PyStr(<<97, 98>>))>>)).bytes }

DecodeBuffers == ArbitraryBuffers \cup UNION { Prefixes(b) : b \in WellFormedBuffers }

\* The unpackers called from outside.
EntryPoints == {"uint", "list_", "dict_", "typed", "header"}

InitDecode ==
    /\ UTF8 = FALSE
    /\ ORDERED_DICT = TRUE
    /\ pc = "decode"
    /\ n = 0
    /\ value = PyNone
    /\ entries = <<>>
    /\ hdr = NoHeader
    /\ unpacked_hdr = NoCall
    /\ buffer \in DecodeBuffers
    /\ offset \in 0..Len(buffer)
    /\ packed = NoCall
    /\ result = NoCall
    /\ \E fn \in EntryPoints : dec = StartDecode(fn, offset)

Running(fn) == dec.status = "running" /\ Top(dec).fn = fn

StepUint ==
    /\ Running("uint")
    /\ dec' = step_uint(dec, buffer)
    /\ UNCHANGED <<UTF8, ORDERED_DICT, pc, n, value, entries, hdr, buffer, offset, packed,
                   unpacked_hdr, result>>

StepInt ==
    /\ Running("int_")
    /\ dec' = step_int_(dec, buffer)
    /\ UNCHANGED <<UTF8, ORDERED_DICT, pc, n, value, entries, hdr, buffer, offset, packed,
                   unpacked_hdr, result>>

StepStr ==
    /\ Running("str_")
    /\ dec' = step_str_(dec, buffer)
    /\ UNCHANGED <<UTF8, ORDERED_DICT, pc, n, value, entries, hdr, buffer, offset, packed,
                   unpacked_hdr, result>>

StepBool ==
    /\ Running("bool_")
    /\ dec' = step_bool_(dec, buffer)
    /\ UNCHANGED <<UTF8, ORDERED_DICT, pc, n, value, entries, hdr, buffer, offset, packed,
                   unpacked_hdr, result>>

StepNone ==
    /\ Running("none")
    /\ dec' = step_none(dec, buffer)
    /\ UNCHANGED <<UTF8, ORDERED_DICT, pc, n, value, entries, hdr, buffer, offset, packed,
                   unpacked_hdr, result>>

StepFloat ==
    /\ Running("float_")
    /\ dec' = step_float_(dec, buffer)
    /\ UNCHANGED <<UTF8, ORDERED_DICT, pc, n, value, entries, hdr, buffer, offset, packed,
                   unpacked_hdr, result>>

StepType ==
    /\ Running("type_")
    /\ dec' = step_type_(dec, buffer)
    /\ UNCHANGED <<UTF8, ORDERED_DICT, pc, n, value, entries, hdr, buffer, offset, packed,
                   unpacked_hdr, result>>

StepList ==
    /\ Running("list_")
    /\ dec' = step_list_(dec, buffer)
    /\ UNCHANGED <<UTF8, ORDERED_DICT, pc, n, value, entries, hdr, buffer, offset, packed,
                   unpacked_hdr, result>>

StepDict ==
    /\ Running("dict_")
    /\ dec' = step_dict_(dec, buffer)
    /\ UNCHANGED <<UTF8, ORDERED_DICT, pc, n, value, entries, hdr, buffer, offset, packed,
                   unpacked_hdr, result>>

StepTyped ==
    /\ Running("typed")
    /\ dec' = step_typed(dec, buffer)
    /\ UNCHANGED <<UTF8, ORDERED_DICT, pc, n, value, entries, hdr, buffer, offset, packed,
                   unpacked_hdr, result>>

StepHeader ==
    /\ Running("header")
    /\ dec' = step_header(dec, buffer)
    /\ UNCHANGED <<UTF8, ORDERED_DICT, pc, n, value, entries, hdr, buffer, offset, packed,
                   unpacked_hdr, result>>

NextDecode ==
    \/ StepUint
    \/ StepInt
    \/ StepStr
    \/ StepBool
    \/ StepNone
    \/ StepFloat
    \/ StepType
    \/ StepList
    \/ StepDict
    \/ StepTyped
    \/ StepHeader

\* The interpreter runs a call that has begun until it returns or raises: the
\* code is synchronous and nothing else is scheduled.
SpecDecode == InitDecode /\ [][NextDecode]_vars /\ WF_vars(NextDecode)

\* ------------------------------------------------- specification SpecCursor
\* Each unpacker of unpack.py is called once, as a whole, on a buffer of
\* DecodeBuffers at an offset inside it, with config.UTF8 off or on.

InitCursor ==
    /\ UTF8 \in BOOLEAN
    /\ ORDERED_DICT = TRUE
    /\ pc = "cursor"
    /\ n = 0
    /\ value = PyNone
    /\ entries = <<>>
    /\ hdr = NoHeader
    /\ unpacked_hdr = NoCall
    /\ buffer \in DecodeBuffers
    /\ offset \in 0..Len(buffer)
    /\ packed = NoCall
    /\ result = NoCall
    /\ dec = NoDecode

CursorUint ==
    /\ pc = "cursor"
    /\ result' = unpack_uint(buffer, offset)
    /\ pc' = "cursor_uint"
    /\ UNCHANGED <<dec, UTF8, ORDERED_DICT, n, value, entries, hdr, buffer, offset, packed,
                   unpacked_hdr>>

CursorInt ==
    /\ pc = "cursor"
    /\ result' = unpack_int_(buffer, offset)
    /\ pc' = "cursor_int_"
    /\ UNCHANGED <<dec, UTF8, ORDERED_DICT, n, value, entries, hdr, buffer, offset, packed,
                   unpacked_hdr>>

CursorStr ==
    /\ pc = "cursor"
    /\ result' = unpack_str_(buffer, offset)
    /\ pc' = "cursor_str_"
    /\ UNCHANGED <<dec, UTF8, ORDERED_DICT, n, value, entries, hdr, buffer, offset, packed,
                   unpacked_hdr>>

CursorBool ==
    /\ pc = "cursor"
    /\ result' = unpack_bool_(buffer, offset)
    /\ pc' = "cursor_bool_"
    /\ UNCHANGED <<dec, UTF8, ORDERED_DICT, n, value, entries, hdr, buffer, offset, packed,
                   unpacked_hdr>>

CursorNone ==
    /\ pc = "cursor"
    /\ result' = unpack_none(buffer, offset)
    /\ pc' = "cursor_none"
    /\ UNCHANGED <<dec, UTF8, ORDERED_DICT, n, value, entries, hdr, buffer, offset, packed,
                   unpacked_hdr>>

CursorFloat ==
    /\ pc = "cursor"
    /\ result' = unpack_float_(buffer, offset)
    /\ pc' = "cursor_float_"
    /\ UNCHANGED <<dec, UTF8, ORDERED_DICT, n, value, entries, hdr, buffer, offset, packed,
                   unpacked_hdr>>

CursorType ==
    /\ pc = "cursor"
    /\ result' = unpack_type_(buffer, offset)
    /\ pc' = "cursor_type_"
    /\ UNCHANGED <<dec, UTF8, ORDERED_DICT, n, value, entries, hdr, buffer, offset, packed,
                   unpacked_hdr>>

CursorList ==
    /\ pc = "cursor"
    /\ result' = unpack_list_(buffer, offset)
    /\ pc' = "cursor_list_"
    /\ UNCHANGED <<dec, UTF8, ORDERED_DICT, n, value, entries, hdr, buffer, offset, packed,
                   unpacked_hdr>>

CursorDict ==
    /\ pc = "cursor"
    /\ result' = unpack_dict_(buffer, offset)
    /\ pc' = "cursor_dict_"
    /\ UNCHANGED <<dec, UTF8, ORDERED_DICT, n, value, entries, hdr, buffer, offset, packed,
                   unpacked_hdr>>

CursorTyped ==
    /\ pc = "cursor"
    /\ result' = unpack_typed(buffer, offset)
    /\ pc' = "cursor_typed"
    /\ UNCHANGED <<dec, UTF8, ORDERED_DICT, n, value, entries, hdr, buffer, offset, packed,
                   unpacked_hdr>>

CursorHeader ==
    /\ pc = "cursor"
    /\ result' = unpack_header(buffer, offset)
    /\ pc' = "cursor_header"
    /\ UNCHANGED <<dec, UTF8, ORDERED_DICT, n, value, entries, hdr, buffer, offset, packed,
                   unpacked_hdr>>

NextCursor ==
    \/ CursorUint
    \/ CursorInt
    \/ CursorStr
    \/ CursorBool
    \/ CursorNone
    \/ CursorFloat
    \/ CursorType
    \/ CursorList
    \/ CursorDict
    \/ CursorTyped
    \/ CursorHeader

SpecCursor == InitCursor /\ [][NextCursor]_vars

\* ------------------------------------------------------ the integer codec

\* C1: unsigned round trip.  For every n >= 0, unpack.uint(pack.uint(n), 0)
\* returns (n, len(pack.uint(n))): the value is n and the offset is the number
\* of bytes the encoder produced.
C1_UintRoundTrip ==
    pc = "unpacked_uint" =>
        /\ n >= 0
        /\ Ok(packed)
        /\ result = Return(n, Len(packed.bytes))

\* A three-byte encoding has been decoded.
C1_Witness == pc = "unpacked_uint" /\ n >= 16384 /\ Len(buffer) = 3 /\ Ok(result)

\* The unsigned number pack.int_ is said to encode for n.
ZigZag(i) == IF i < 0 THEN 2 * abs(i) - 1 ELSE 2 * abs(i)

\* C2: signed round trip.  For every integer n, pack.int_(n) is the VLQ encoding
\* of m = 2*|n| (minus 1 when n < 0), and unpack.int_(pack.int_(n), 0) returns
\* (n, len(pack.int_(n))).
C2_IntRoundTrip ==
    /\ pc \in {"packed_int", "unpacked_int"} => packed = pack_uint(ZigZag(n))
    /\ pc = "unpacked_int" => result = Return(n, Len(packed.bytes))

\* A negative integer with a two-byte encoding has been decoded.
C2_Witness == pc = "unpacked_int" /\ n < -64 /\ Len(buffer) = 2 /\ Ok(result)

\* C8: pack.uint(n) raises PackingError for every n < 0 and produces no bytes;
\* pack.int_(n) raises for no integer n.
C8_NegativeRejected ==
    /\ (pc \in {"packed_uint", "pack_uint_raised"} /\ n < 0) =>
           (pc = "pack_uint_raised" /\ packed = Raise("PackingError") /\ buffer = <<>>)
    /\ pc # "pack_int_raised"

\* pack.uint has rejected a negative number.
C8_Witness == pc = "pack_uint_raised" /\ n < 0 /\ packed = Raise("PackingError")

RECURSIVE BitLength(_)
\* int.bit_length() of i >= 0.
BitLength(i) == IF i = 0 THEN 0 ELSE 1 + BitLength(i \div 2)

CeilDiv(a, b) == (a + b - 1) \div b

Max(a, b) == IF a > b THEN a ELSE b

\* C10: canonical encoding.  For n >= 0, pack.uint(n) has exactly
\* max(1, ceil(bitlength(n)/7)) bytes, every byte but the last has bit 0x80 set
\* and the last has it clear, the 7-bit groups come most significant first, the
\* first byte of a longer output is not 0x80, and 0 encodes as the byte 0x00.
C10_Canonical ==
    pc = "packed_uint" =>
        LET b == packed.bytes
            L == Len(b)
        IN  /\ L = Max(1, CeilDiv(BitLength(n), 7))
            /\ \A i \in 1..(L - 1) : b[i] >= 128 /\ b[i] < 256
            /\ b[L] >= 0 /\ b[L] < 128
            /\ \A i \in 1..L : b[i] % 128 = (n \div (128 ^ (L - i))) % 128
            /\ (L > 1 => b[1] # 128)
            /\ (n = 0 => b = <<0>>)

\* A four-byte encoding has been produced.
C10_Witness == pc = "packed_uint" /\ Len(packed.bytes) = 4

\* ------------------------------------------------------ malformed buffers

\* The name unpack.type_ gives each tag of the table of the format.
TagTable == <<"None", "float", "bool", "int", "str", "list", "dict">>

\* C5: unpack.type_ maps the tags 1..7 to null, float, boolean, integer, string,
\* list and map, and unpack.type_ and unpack.typed raise UnpackingError for
\* every VLQ-decoded tag outside [1,7], tag 0 included.
C5_TagValidated ==
    LET tag == unpack_uint(buffer, offset)
    IN  (pc \in {"raw_type", "raw_typed"} /\ Ok(tag)) =>
            /\ (pc = "raw_type" /\ tag.value \in 1..7)
                   => result = Return(TagTable[tag.value], tag.offset)
            /\ tag.value \notin 1..7 => result = Raise("UnpackingError")

\* Every byte from the offset to the end of the buffer has the continuation bit.
Truncated(buf, off) == \A i \in (off + 1)..Len(buf) : buf[i] >= 128

\* C7: on a buffer whose bytes from the offset on all have the continuation bit
\* set (none at all included), unpack.uint and unpack.int_ raise UnpackingError.
C7_TruncatedRaisesUnpackingError ==
    (pc \in {"raw_uint", "raw_int"} /\ Truncated(buffer, offset)) =>
        result = Raise("UnpackingError")

\* -------------------------------------------------------- the string codec

\* C6: for every string pack.str_ encodes (ASCII always, any string when
\* config.UTF8 is on), the VLQ length prefix equals the number of payload bytes
\* after it, and unpack.str_(pack.str_(s), 0) returns (s, len(pack.str_(s))).
C6_PrefixIsByteCount ==
    LET prefix == unpack_uint(packed.bytes, 0)
    IN  /\ pc \in {"packed_str", "unpacked_str"} =>
               prefix.value = Len(packed.bytes) - prefix.offset
        /\ pc = "unpacked_str" => result = Return(value.v, Len(packed.bytes))

\* ---------------------------------------------------- the tagged-value codec

RECURSIVE SameTree(_, _)
\* a and b have the same variant at every node, the same scalars, the same list
\* elements in the same order and the same map entries; in the same order too
\* when config.ORDERED_DICT is on.
SameTree(a, b) ==
    IF IsDict(a)
    THEN /\ IsDict(b)
         /\ Len(a.v) = Len(b.v)
         /\ \A i \in 1..Len(a.v) : \E j \in 1..Len(b.v) :
                /\ a.v[i].k = b.v[j].k
                /\ SameTree(a.v[i].v, b.v[j].v)
                /\ ORDERED_DICT => i = j
    ELSE /\ a.t = b.t
         /\ CASE a.t = "NoneType" -> TRUE
              [] a.t = "list" -> /\ Len(a.v) = Len(b.v)
                                 /\ \A i \in 1..Len(a.v) : SameTree(a.v[i], b.v[i])
              [] OTHER -> a.v = b.v

\* C3: for every float-free tagged value v, unpack.typed(pack.typed(v), 0)
\* returns (v', len(pack.typed(v))) with v' the same tree as v: same variant at
\* every node (a boolean stays a boolean), same list order, same map entries,
\* in the same order when config.ORDERED_DICT is on.
C3_TypedRoundTrip ==
    /\ pc # "pack_typed_raised"
    /\ pc = "unpacked_typed" =>
           /\ Ok(result)
           /\ result.offset = Len(packed.bytes)
           /\ SameTree(value, result.value)

\* A list holding a boolean and a nested non-empty map has been decoded.
C3_Witness ==
    /\ pc = "unpacked_typed"
    /\ Ok(result)
    /\ value.t = "list"
    /\ Len(value.v) = 2
    /\ IsDict(value.v[1]) /\ Len(value.v[1].v) = 1
    /\ value.v[2] = PyBool(TRUE)

\* The index of the last item of `items` with the key `key`.
LastIndex(items, key) ==
    CHOOSE i \in 1..Len(items) :
        /\ items[i].k = key
        /\ \A j \in (i + 1)..Len(items) : items[j].k # key

\* C9: unpack.dict_ on a count N followed by N items decodes exactly the N
\* items; the result maps each distinct key to the value of its last
\* occurrence, has at most N keys, and the offset is past all N items.
C9_LastWriteWins ==
    pc = "unpacked_dict" =>
        /\ Ok(result)
        /\ result.offset = Len(packed.bytes)
        /\ IsDict(result.value)
        /\ LET got == result.value.v
           IN  /\ Len(got) <= Len(entries)
               /\ \A i, j \in 1..Len(got) : got[i].k = got[j].k => i = j
               /\ {got[i].k : i \in 1..Len(got)} = {entries[i].k : i \in 1..Len(entries)}
               /\ \A i \in 1..Len(got) :
                      SameTree(entries[LastIndex(entries, got[i].k)].v, got[i].v)

\* Three items, the first and the last with the same key and different values,
\* have been decoded into two keys, with bytes left behind them in the buffer.
C9_Witness ==
    /\ pc = "unpacked_dict"
    /\ Len(entries) = 3
    /\ entries[1].k = entries[3].k
    /\ entries[1].k # entries[2].k
    /\ entries[1].v = PyNone
    /\ entries[3].v.t = "int"
    /\ Ok(result)
    /\ Len(result.value.v) = 2
    /\ result.offset < Len(buffer)

Terminated == dec.status \in {"returned", "raised"}

\* What the unpacker called from outside returns or raises when computed at once.
AtOnce(fn, buf, off) ==
    CASE fn = "uint" -> unpack_uint(buf, off)
      [] fn = "list_" -> unpack_list_(buf, off)
      [] fn = "dict_" -> unpack_dict_(buf, off)
      [] fn = "typed" -> unpack_typed(buf, off)
      [] fn = "header" -> unpack_header(buf, off)

\* The run step by step ends as the recursive definition of the unpacker says:
\* with the same offset, or with the same exception.
StepwiseAgrees ==
    Terminated =>
        LET r == AtOnce(dec.fn, buffer, offset)
        IN  IF dec.status = "returned" THEN Ok(r) /\ r.offset = dec.ret.offset
            ELSE r.err = dec.err

\* The for loops have begun no more passes than there are bytes from the offset
\* to the end of the buffer: every element takes at least one.
ItemsBounded == dec.items <= Len(buffer) - offset

\* C11: decode terminates.  On every buffer and every offset inside it,
\* unpack.typed, unpack.uint, unpack.list_, unpack.dict_ and unpack.header
\* eventually return or raise, and a count larger than the bytes that remain
\* cannot keep a loop going: the passes of the loops are bounded by the length
\* of the buffer.
C11_DecodeTerminates == [](ItemsBounded /\ StepwiseAgrees) /\ <>Terminated

\* unpack.list_ has raised on a count of 7 with two bytes behind it, after
\* beginning three passes.
C11_Witness ==
    /\ dec.status = "raised"
    /\ dec.fn = "list_"
    /\ buffer = <<7, 1, 1>>
    /\ offset = 0
    /\ dec.items = 3

\* ------------------------------------------------------------ the cursor

\* An unpacker was called and returned.
CursorReturned == pc # "cursor" /\ Ok(result)

\* The offset an unpacker returned is not before the offset it was given and
\* not beyond the end of the buffer.
OffsetInside == offset <= result.offset /\ result.offset <= Len(buffer)

\* Every unpacker but unpack.header returns an offset inside the buffer.
CursorInsideBelowHeader == (CursorReturned /\ pc # "cursor_header") => OffsetInside

\* The format identifier unpack.header returns has 6 bytes.
HeaderFormatWhole == (CursorReturned /\ pc = "cursor_header") => Len(result.save_format) = 6

\* C12: whenever an unpacker (uint, int_, str_, bool_, none, float_, type_,
\* list_, dict_, typed, header) returns, called at an offset inside the buffer,
\* the offset it returns is inside the buffer and not before the one given; and
\* what unpack.header returns has a format identifier of 6 bytes and 5 flags.
C12_CursorInside ==
    CursorReturned =>
        /\ OffsetInside
        /\ pc = "cursor_header" =>
               /\ Len(result.save_format) = 6
               /\ Len(result.flags) = 5

====
